---- MODULE Spec2Model ----
(***************************************************************************)
(* Voter registration flow of CYOP300W2.py: the six field getters          *)
(* (firstName, lastName, isValidAge, countryOfCitizenship,                 *)
(* stateOfResidence, zipCode), the continuation question and main().       *)
(*                                                                         *)
(* Text is a sequence of characters.  An ASCII character is the one-letter *)
(* string of itself; four non-ASCII characters are named:                  *)
(*   "sup2"      U+00B2 SUPERSCRIPT TWO       (a digit, not a decimal)      *)
(*   "ar3"       U+0663 ARABIC-INDIC DIGIT 3  (a decimal digit, value 3)    *)
(*   "dotless_i" U+0131 LATIN SMALL DOTLESS I (upper() is "I")              *)
(*   "fl_lig"    U+FB02 LATIN SMALL LIGATURE FL (upper() is "FL")           *)
(***************************************************************************)
EXTENDS Integers, Sequences, FiniteSets, TLC

(***************************************************************************)
(* Characters and the str methods the getters call.                        *)
(***************************************************************************)
LowerLetters ==
    << "a", "b", "c", "d", "e", "f", "g", "h", "i", "j", "k", "l", "m",
       "n", "o", "p", "q", "r", "s", "t", "u", "v", "w", "x", "y", "z" >>

UpperLetters ==
    << "A", "B", "C", "D", "E", "F", "G", "H", "I", "J", "K", "L", "M",
       "N", "O", "P", "Q", "R", "S", "T", "U", "V", "W", "X", "Y", "Z" >>

AsciiDigits == << "0", "1", "2", "3", "4", "5", "6", "7", "8", "9" >>

Range(s) == { s[k] : k \in 1..Len(s) }

IndexOf(s, c) == CHOOSE k \in 1..Len(s) : s[k] = c

IsAsciiLower(c) == c \in Range(LowerLetters)

IsAsciiUpper(c) == c \in Range(UpperLetters)

IsAsciiLetter(c) == IsAsciiLower(c) \/ IsAsciiUpper(c)

IsSpace(c) == c = " "

\* str.isdigit() per character: decimal digits and other digit characters.
IsDigitChar(c) == c \in Range(AsciiDigits) \/ c = "ar3" \/ c = "sup2"

\* A decimal digit (Unicode Nd): what int() reads and what \d matches.
IsDecimalChar(c) == c \in Range(AsciiDigits) \/ c = "ar3"

DecimalValue(c) == IF c = "ar3" THEN 3 ELSE IndexOf(AsciiDigits, c) - 1

\* str.lower() of one character, as text.
LowerChar(c) ==
    IF IsAsciiUpper(c) THEN << LowerLetters[IndexOf(UpperLetters, c)] >>
    ELSE << c >>

\* str.upper() of one character, as text (the ligature becomes two letters).
UpperChar(c) ==
    IF IsAsciiLower(c) THEN << UpperLetters[IndexOf(LowerLetters, c)] >>
    ELSE IF c = "dotless_i" THEN << "I" >>
    ELSE IF c = "fl_lig" THEN << "F", "L" >>
    ELSE << c >>

RECURSIVE lower(_)
lower(s) == IF s = << >> THEN << >> ELSE LowerChar(Head(s)) \o lower(Tail(s))

RECURSIVE upper(_)
upper(s) == IF s = << >> THEN << >> ELSE UpperChar(Head(s)) \o upper(Tail(s))

RECURSIVE lstrip(_)
lstrip(s) ==
    IF s # << >> /\ IsSpace(Head(s)) THEN lstrip(Tail(s)) ELSE s

RECURSIVE rstrip(_)
rstrip(s) ==
    IF s # << >> /\ IsSpace(s[Len(s)]) THEN rstrip(SubSeq(s, 1, Len(s) - 1))
    ELSE s

strip(s) == rstrip(lstrip(s))

isdigit(s) == s # << >> /\ \A k \in 1..Len(s) : IsDigitChar(s[k])

AllDecimal(s) == \A k \in 1..Len(s) : IsDecimalChar(s[k])

RECURSIVE DigitsValue(_)
DigitsValue(s) ==
    IF s = << >> THEN 0
    ELSE 10 * DigitsValue(SubSeq(s, 1, Len(s) - 1)) + DecimalValue(s[Len(s)])

\* int(text): surrounding blanks and one sign are allowed, then decimal
\* digits; anything else is a ValueError.
int(s) ==
    LET t == strip(s)
        signed == t # << >> /\ Head(t) \in {"+", "-"}
        body == IF signed THEN Tail(t) ELSE t
    IN  IF body # << >> /\ AllDecimal(body)
        THEN [ok |-> TRUE,
              val |-> IF signed /\ Head(t) = "-" THEN 0 - DigitsValue(body)
                      ELSE DigitsValue(body)]
        ELSE [ok |-> FALSE, val |-> 0]

RECURSIVE NatStr(_)
NatStr(n) ==
    IF n < 10 THEN << AsciiDigits[n + 1] >>
    ELSE NatStr(n \div 10) \o << AsciiDigits[(n % 10) + 1] >>

\* str(n): the decimal string of an integer.
DecStr(n) == IF n < 0 THEN << "-" >> \o NatStr(0 - n) ELSE NatStr(n)

(***************************************************************************)
(* Field validators.  Each getter is a `while True` loop around input();   *)
(* the operator below is one pass of that loop on the line that was typed: *)
(* the getter returns a value (Accepted), returns None (CancelRequested),  *)
(* prints its message and loops (Retry), or an exception leaves it         *)
(* (Raised).                                                               *)
(***************************************************************************)
Accepted(v) == [tag |-> "Accepted", value |-> v]

Retry == [tag |-> "Retry"]

CancelRequested == [tag |-> "CancelRequested"]

Raised(e) == [tag |-> "Raised", exc |-> e]

ExitTokens == { << "e", "x", "i", "t" >>, << "q", "u", "i", "t" >> }

\* The comparison without lower().
_exit_requested_exact(text) == strip(text) \in ExitTokens

_exit_requested(text) == lower(strip(text)) \in ExitTokens

MaxAge == 120

\* The range test starts at the voting age: a younger age is a format error.
isValidAge_min18(raw) ==
    LET age == strip(raw)
    IN  IF _exit_requested(age) THEN CancelRequested
        ELSE IF isdigit(age)
             THEN IF ~int(age).ok THEN Raised("ValueError")
                  ELSE IF 18 <= int(age).val /\ int(age).val <= MaxAge
                       THEN Accepted(int(age).val)
                       ELSE Retry
             ELSE Retry

isValidAge(raw) ==
    LET age == strip(raw)
    IN  IF _exit_requested(age) THEN CancelRequested
        ELSE IF isdigit(age)
             THEN IF ~int(age).ok THEN Raised("ValueError")
                  ELSE IF 0 <= int(age).val /\ int(age).val <= MaxAge
                       THEN Accepted(int(age).val)
                       ELSE Retry
             ELSE Retry

\* re.compile(r"[A-Za-z][A-Za-z '\-]*$").fullmatch
NamePattern(s) ==
    /\ s # << >>
    /\ IsAsciiLetter(s[1])
    /\ \A k \in 2..Len(s) : IsAsciiLetter(s[k]) \/ s[k] \in {" ", "'", "-"}

firstName(raw) ==
    LET fName == strip(raw)
    IN  IF _exit_requested(fName) THEN CancelRequested
        ELSE IF NamePattern(fName) THEN Accepted(fName)
        ELSE Retry

lastName(raw) ==
    LET lName == strip(raw)
    IN  IF _exit_requested(lName) THEN CancelRequested
        ELSE IF NamePattern(lName) THEN Accepted(lName)
        ELSE Retry

\* "True", "False" or "None".
_yes_no(value) ==
    LET v == lower(strip(value))
    IN  IF v \in { << "y" >>, << "y", "e", "s" >> } THEN "True"
        ELSE IF v \in { << "n" >>, << "n", "o" >> } THEN "False"
        ELSE "None"

countryOfCitizenship(raw) ==
    LET ans == strip(raw)
        yn == _yes_no(ans)
    IN  IF _exit_requested(ans) THEN CancelRequested
        ELSE IF yn # "None" THEN Accepted(yn = "True")
        ELSE Retry

\* re.compile(r"\d{5}(-\d{4})?$").fullmatch
ZipPattern(s) ==
    \/ Len(s) = 5 /\ AllDecimal(s)
    \/ /\ Len(s) = 10
       /\ AllDecimal(SubSeq(s, 1, 5))
       /\ s[6] = "-"
       /\ AllDecimal(SubSeq(s, 7, 10))

zipCode(raw) ==
    LET zip_code == strip(raw)
    IN  IF _exit_requested(zip_code) THEN CancelRequested
        ELSE IF ZipPattern(zip_code) THEN Accepted(zip_code)
        ELSE Retry

\* stateOfResidenceHM.values()
stateOfResidenceHM ==
    { <<"A", "L">>, <<"A", "K">>, <<"A", "Z">>, <<"A", "R">>, <<"C", "A">>, <<"C", "O">>,
      <<"C", "T">>, <<"D", "E">>, <<"F", "L">>, <<"G", "A">>, <<"H", "I">>, <<"I", "D">>,
      <<"I", "L">>, <<"I", "N">>, <<"I", "A">>, <<"K", "S">>, <<"K", "Y">>, <<"L", "A">>,
      <<"M", "E">>, <<"M", "D">>, <<"M", "A">>, <<"M", "I">>, <<"M", "N">>, <<"M", "S">>,
      <<"M", "O">>, <<"M", "T">>, <<"N", "E">>, <<"N", "V">>, <<"N", "H">>, <<"N", "J">>,
      <<"N", "M">>, <<"N", "Y">>, <<"N", "C">>, <<"N", "D">>, <<"O", "H">>, <<"O", "K">>,
      <<"O", "R">>, <<"P", "A">>, <<"R", "I">>, <<"S", "C">>, <<"S", "D">>, <<"T", "N">>,
      <<"T", "X">>, <<"U", "T">>, <<"V", "T">>, <<"V", "A">>, <<"W", "A">>, <<"W", "V">>,
      <<"W", "I">>, <<"W", "Y">>, <<"D", "C">>, <<"A", "S">>, <<"G", "U">>, <<"M", "P">>,
      <<"P", "R">>, <<"U", "M">>, <<"V", "I">> }

stateOfResidence(raw) ==
    LET state == upper(strip(raw))
    IN  IF _exit_requested(state) THEN CancelRequested
        ELSE IF Len(state) = 2 /\ state \in stateOfResidenceHM
             THEN Accepted(state)
        ELSE Retry

(***************************************************************************)
(* The continuation question and the pieces of main().  A call that may    *)
(* raise CancelRegistration yields [kind |-> "raise", message |-> m]; one  *)
(* that returns yields [kind |-> "return"]; a prompt loop that asks again  *)
(* yields [kind |-> "ask_again"]; any other exception is "error".          *)
(***************************************************************************)
InitialMsg == "Thanks for trying the Voter Registration Application. Goodbye!"

DefaultMsg == "Registration canceled. Goodbye!"

EligibilityMsg == "Thanks for trying the Voter Registration Application."

Return == [kind |-> "return"]

AskAgain == [kind |-> "ask_again"]

Raise(m) == [kind |-> "raise", message |-> m]

\* The exception's default message is the initial one.
CancelRegistrationInitial == Raise(InitialMsg)

\* class CancelRegistration: the message defaults to the generic one.
CancelRegistration == Raise(DefaultMsg)

\* The question honours the cancellation token: exit or quit counts as a no.
_ask_continue_honours_exit(raw) ==
    IF _exit_requested(raw) THEN "False" ELSE _yes_no(strip(raw))

\* One pass of _ask_continue's loop: "True", "False", or "None" (ask again).
_ask_continue(raw) == _yes_no(strip(raw))

\* The `initial` flag is not looked at.
_continue_or_raise_generic(initial, raw) ==
    LET yn == _ask_continue(raw)
    IN  IF yn = "None" THEN AskAgain
        ELSE IF yn = "False" THEN Raise(DefaultMsg)
        ELSE Return

_continue_or_raise(initial, raw) ==
    LET yn == _ask_continue(raw)
    IN  IF yn = "None" THEN AskAgain
        ELSE IF yn = "False"
             THEN Raise(IF initial THEN InitialMsg ELSE DefaultMsg)
        ELSE Return

MinVotingAge == 18

\* The guard lets the age just under the voting age through.
_age_check_from17(value) ==
    IF value < 17 THEN Raise(EligibilityMsg) ELSE Return

_age_check(value) ==
    IF value < MinVotingAge THEN Raise(EligibilityMsg) ELSE Return

\* The test is the wrong way round.
_citizen_check_inverted(value) ==
    IF value THEN Raise(EligibilityMsg) ELSE Return

_citizen_check(value) ==
    IF ~value THEN Raise(EligibilityMsg) ELSE Return

steps ==
    << [key |-> "first",   getter |-> "firstName",            post_check |-> "None"],
       [key |-> "last",    getter |-> "lastName",             post_check |-> "None"],
       [key |-> "age",     getter |-> "isValidAge",           post_check |-> "_age_check"],
       [key |-> "citizen", getter |-> "countryOfCitizenship", post_check |-> "_citizen_check"],
       [key |-> "state",   getter |-> "stateOfResidence",     post_check |-> "None"],
       [key |-> "zip",     getter |-> "zipCode",              post_check |-> "None"] >>

Getters == { steps[k].getter : k \in 1..Len(steps) }

\* getter(): the named getter on the line typed at its prompt.
Getter(name, raw) ==
    CASE name = "firstName" -> firstName(raw)
      [] name = "lastName" -> lastName(raw)
      [] name = "isValidAge" -> isValidAge(raw)
      [] name = "countryOfCitizenship" -> countryOfCitizenship(raw)
      [] name = "stateOfResidence" -> stateOfResidence(raw)
      [] name = "zipCode" -> zipCode(raw)

\* A line the getter asks again is treated as the operator's exit.
_require_retry_cancels(getter, raw) ==
    LET val == Getter(getter, raw)
    IN  CASE val.tag = "Retry" -> CancelRegistration
          [] val.tag = "Raised" -> [kind |-> "error", exc |-> val.exc]
          [] val.tag = "CancelRequested" -> CancelRegistration
          [] val.tag = "Accepted" -> [kind |-> "return", value |-> val.value]

\* _require(getter) on one typed line.
_require(getter, raw) ==
    LET val == Getter(getter, raw)
    IN  CASE val.tag = "Retry" -> AskAgain
          [] val.tag = "Raised" -> [kind |-> "error", exc |-> val.exc]
          [] val.tag = "CancelRequested" -> CancelRegistration
          [] val.tag = "Accepted" -> [kind |-> "return", value |-> val.value]

\* if post_check: post_check(value)
PostCheck(post_check, value) ==
    CASE post_check = "None" -> Return
      [] post_check = "_age_check" -> _age_check(value)
      [] post_check = "_citizen_check" -> _citizen_check(value)

\* What a guard did: there was none, it returned, or it raised.
GuardLog(step, g) ==
    IF step.post_check = "None" THEN "None"
    ELSE IF g.kind = "raise" THEN "Abort"
    ELSE "Pass"

\* The guard's raise is ignored: the value is stored and the loop goes on.
RunStepIgnoreGuard(res, step, value) ==
    LET g == PostCheck(step.post_check, value)
    IN  [results |-> (step.key :> value) @@ res, raised |-> FALSE,
         guard |-> GuardLog(step, g), message |-> ""]

\* The store comes before the guard.
RunStepStoreFirst(res, step, value) ==
    LET g == PostCheck(step.post_check, value)
    IN  [results |-> (step.key :> value) @@ res, raised |-> g.kind = "raise",
         guard |-> GuardLog(step, g),
         message |-> IF g.kind = "raise" THEN g.message ELSE ""]

\* The store replaces the record by the new entry alone.
RunStepForgetEarlier(res, step, value) ==
    LET g == PostCheck(step.post_check, value)
    IN  IF g.kind = "raise"
        THEN [results |-> res, raised |-> TRUE,
              guard |-> GuardLog(step, g), message |-> g.message]
        ELSE [results |-> (step.key :> value), raised |-> FALSE,
              guard |-> GuardLog(step, g), message |-> ""]

\* The loop body after _require returned `value`: the guard, then the store.
RunStep(res, step, value) ==
    LET g == PostCheck(step.post_check, value)
    IN  IF g.kind = "raise"
        THEN [results |-> res, raised |-> TRUE,
              guard |-> GuardLog(step, g), message |-> g.message]
        ELSE [results |-> (step.key :> value) @@ res, raised |-> FALSE,
              guard |-> GuardLog(step, g), message |-> ""]

NoOutcome == [tag |-> "None"]

Completed(res) == [tag |-> "Completed", result |-> res]

Cancelled(reason) == [tag |-> "Cancelled", reason |-> reason]

(***************************************************************************)
(* Lines an operator may type at a prompt.                                 *)
(***************************************************************************)
txt_yes == << "y", "e", "s" >>

txt_Y == << "Y" >>

txt_no == << "n", "o" >>

txt_NO == << "N", "O" >>

txt_exit == << "e", "x", "i", "t" >>

txt_QUIT == << "Q", "U", "I", "T" >>

txt_Ann == << "A", "n", "n" >>

txt_Lee == << "L", "e", "e" >>

txt_MD == << "M", "D" >>

txt_md_padded == << " ", "m", "d", " " >>

txt_fl_lig == << "fl_lig" >>

txt_25 == << "2", "5" >>

txt_16 == << "1", "6" >>

txt_17 == << "1", "7" >>

txt_18 == << "1", "8" >>

txt_120 == << "1", "2", "0" >>

txt_121 == << "1", "2", "1" >>

txt_sup2 == << "sup2" >>

txt_ar3 == << "ar3" >>

txt_21201 == << "2", "1", "2", "0", "1" >>

txt_zip4 == << "2", "1", "2", "0", "1", "-", "1", "2", "3", "4" >>

txt_2120 == << "2", "1", "2", "0" >>

txt_empty == <<  >>

txt_exit_dotless == << "e", "x", "dotless_i", "t" >>

txt_quit_dotless == << "q", "u", "dotless_i", "t" >>

txt_4nn == << "4", "n", "n" >>

txt_ONeil == << "O", "'", "N", "e", "i", "l" >>

\* What the operator chooses from at every prompt of a free run.
Inputs ==
    { txt_yes, txt_Y, txt_no, txt_exit, txt_QUIT, txt_Ann, txt_Lee, txt_MD,
      txt_md_padded, txt_fl_lig, txt_25, txt_16, txt_17, txt_18, txt_120,
      txt_121, txt_sup2,
      txt_21201, txt_zip4, txt_2120, txt_empty, txt_exit_dotless }

(***************************************************************************)
(* State.  main(): pc is where the run waits, cursor the number of steps   *)
(* done, results the dict, outcome what main printed at its end.  History: *)
(* answers lists what _ask_continue returned each time it returned,        *)
(* sinceAccept counts the questions answered since the run began or the    *)
(* last value was stored, prompted holds the fields whose prompt was       *)
(* shown, events lists how each getter call ended (never a Retry pass).    *)
(* stdin holds the lines still to be typed in a scripted run, script the   *)
(* whole script.  vfield, vraw, vout: one getter applied to one line.      *)
(* run numbers the calls of main() on the same script and prev keeps how   *)
(* the call before ended.  mpc, margs, mline belong to menu(): the prompt   *)
(* it waits at, the values the current handler has read so far, and the    *)
(* line typed last with the prompt it was typed at.                        *)
(***************************************************************************)
VARIABLES pc, cursor, results, outcome, answers, sinceAccept, prompted,
          events, stdin, script, vfield, vraw, vout, run, prev, mpc, margs,
          mline

mainVars ==
    << pc, cursor, results, outcome, answers, sinceAccept, prompted, events >>

vVars == << vfield, vraw, vout >>

rerunVars == << run, prev >>

menuVars == << mpc, margs, mline >>

vars == << pc, cursor, results, outcome, answers, sinceAccept, prompted,
           events, stdin, script, vfield, vraw, vout, run, prev, mpc, margs,
           mline >>

MainInit ==
    /\ pc = "initial_confirm"
    /\ cursor = 0
    /\ results = << >>
    /\ outcome = NoOutcome
    /\ answers = << >>
    /\ sinceAccept = 0
    /\ prompted = {}
    /\ events = << >>

VIdle == vfield = "None" /\ vraw = << >> /\ vout = [tag |-> "Idle"]

RunIdle == run = 1 /\ prev = [tag |-> "None"]

NoLine == [at |-> "None", text |-> << >>]

MenuIdle == mpc = "off" /\ margs = << >> /\ mline = NoLine

Init ==
    MainInit /\ stdin = << >> /\ script = << >> /\ VIdle /\ RunIdle /\ MenuIdle

\* The initial question doubles as the first step's question.
InitialConfirmIsFirstQuestion(raw) ==
    /\ pc = "initial_confirm"
    /\ LET r == _continue_or_raise(TRUE, raw)
       IN  /\ pc' = CASE r.kind = "ask_again" -> "initial_confirm"
                      [] r.kind = "raise" -> "done"
                      [] r.kind = "return" -> "input"
           /\ outcome' = IF r.kind = "raise" THEN Cancelled(r.message)
                         ELSE outcome
           /\ answers' = IF r.kind = "ask_again" THEN answers
                         ELSE Append(answers, r.kind = "return")
           /\ sinceAccept' = IF r.kind = "ask_again" THEN sinceAccept
                             ELSE sinceAccept + 1
           /\ prompted' = IF r.kind = "return"
                          THEN prompted \cup {steps[cursor + 1].key}
                          ELSE prompted
    /\ UNCHANGED << cursor, results, events >>

\* main, line 375: _continue_or_raise(initial=True) on one typed line.
InitialConfirm(raw) ==
    /\ pc = "initial_confirm"
    /\ LET r == _continue_or_raise(TRUE, raw)
       IN  /\ pc' = CASE r.kind = "ask_again" -> "initial_confirm"
                      [] r.kind = "raise" -> "done"
                      [] r.kind = "return" -> "confirm"
           /\ outcome' = IF r.kind = "raise" THEN Cancelled(r.message)
                         ELSE outcome
           /\ answers' = IF r.kind = "ask_again" THEN answers
                         ELSE Append(answers, r.kind = "return")
           /\ sinceAccept' = IF r.kind = "ask_again" THEN sinceAccept
                             ELSE sinceAccept + 1
    /\ UNCHANGED << cursor, results, prompted, events >>

\* main, line 401: _continue_or_raise() at the top of the loop body; when it
\* returns, _require calls the step's getter, which shows its prompt.
LoopConfirm(raw) ==
    /\ pc = "confirm"
    /\ LET r == _continue_or_raise(FALSE, raw)
       IN  /\ pc' = CASE r.kind = "ask_again" -> "confirm"
                      [] r.kind = "raise" -> "done"
                      [] r.kind = "return" -> "input"
           /\ outcome' = IF r.kind = "raise" THEN Cancelled(r.message)
                         ELSE outcome
           /\ answers' = IF r.kind = "ask_again" THEN answers
                         ELSE Append(answers, r.kind = "return")
           /\ sinceAccept' = IF r.kind = "ask_again" THEN sinceAccept
                             ELSE sinceAccept + 1
           /\ prompted' = IF r.kind = "return"
                          THEN prompted \cup {steps[cursor + 1].key}
                          ELSE prompted
    /\ UNCHANGED << cursor, results, events >>

\* main, lines 402-418: one line typed at the step's prompt; the guard, the
\* store, and after the last step the success summary.  An exception other
\* than CancelRegistration is not caught by main.
StepInput(raw) ==
    /\ pc = "input"
    /\ LET step == steps[cursor + 1]
           got == Getter(step.getter, raw)
           r == _require(step.getter, raw)
           done == IF r.kind = "return" THEN RunStep(results, step, r.value)
                   ELSE [results |-> results, raised |-> FALSE,
                         guard |-> "None", message |-> ""]
           stored == r.kind = "return" /\ ~done.raised
       IN  /\ results' = done.results
           /\ cursor' = IF stored THEN cursor + 1 ELSE cursor
           /\ sinceAccept' = IF stored THEN 0 ELSE sinceAccept
           /\ events' =
                IF r.kind = "ask_again" THEN events
                ELSE Append(events,
                            IF got.tag = "Accepted"
                            THEN [key |-> step.key, raw |-> raw,
                                  tag |-> got.tag, value |-> got.value,
                                  guard |-> done.guard]
                            ELSE [key |-> step.key, raw |-> raw,
                                  tag |-> got.tag, guard |-> done.guard])
           /\ pc' = CASE r.kind = "ask_again" -> "input"
                      [] r.kind = "error" -> "crashed"
                      [] r.kind = "raise" -> "done"
                      [] r.kind = "return" ->
                           IF ~stored \/ cursor + 1 = Len(steps) THEN "done"
                           ELSE "confirm"
           /\ outcome' = CASE r.kind = "raise" -> Cancelled(r.message)
                           [] r.kind = "return" /\ ~stored ->
                                Cancelled(done.message)
                           [] r.kind = "return" /\ stored
                                /\ cursor + 1 = Len(steps) ->
                                Completed(done.results)
                           [] OTHER -> outcome
    /\ UNCHANGED << answers, prompted >>

\* A free run: the operator types any line of Inputs at each prompt.
Next ==
    \/ \E raw \in Inputs :
         InitialConfirm(raw)
         /\ UNCHANGED << stdin, script, vVars, rerunVars, menuVars >>
    \/ \E raw \in Inputs :
         LoopConfirm(raw)
         /\ UNCHANGED << stdin, script, vVars, rerunVars, menuVars >>
    \/ \E raw \in Inputs :
         StepInput(raw)
         /\ UNCHANGED << stdin, script, vVars, rerunVars, menuVars >>

Spec == Init /\ [][Next]_vars

(***************************************************************************)
(* Scripted runs: the operator's lines are fixed beforehand and main()     *)
(* reads them one by one; when they are used up the run waits at its       *)
(* prompt.                                                                 *)
(***************************************************************************)
MaxScript == 2

RECURSIVE SeqsUpTo(_, _)
SeqsUpTo(S, n) ==
    IF n = 0 THEN { << >> }
    ELSE LET shorter == SeqsUpTo(S, n - 1)
         IN  shorter \cup { Append(t, x) : t \in shorter, x \in S }

\* A run in which every question is answered yes and every field is valid.
GoodRun ==
    << txt_yes, txt_yes, txt_Ann, txt_yes, txt_Lee, txt_yes, txt_25,
       txt_yes, txt_yes, txt_yes, txt_MD, txt_yes, txt_21201 >>

ScenarioA ==
    << txt_yes, txt_Ann, txt_Lee, txt_25, txt_yes, txt_MD, txt_21201 >>

ScenarioB == << txt_yes, txt_exit >>

ScenarioB2 == << txt_yes, txt_yes, txt_exit >>

ScenarioC == << txt_yes, txt_Ann, txt_Lee, txt_16 >>

ScenarioD == << txt_no >>

ScriptTokens == { txt_yes, txt_no, txt_QUIT, txt_Ann, txt_16, txt_sup2 }

\* The good run with the age line replaced by an age below 18, or the
\* citizenship line by a no.
txt_n == << "n" >>

txt_No == << "N", "o" >>

IneligibleRuns ==
    { [GoodRun EXCEPT ![7] = DecStr(n)] : n \in 0..17 }
    \cup { [GoodRun EXCEPT ![9] = t] : t \in { txt_no, txt_NO, txt_n, txt_No } }

\* The named scenarios, the ineligible runs, and the good run with up to
\* MaxScript other lines typed at any one point of it.
Scripts ==
    { ScenarioA, ScenarioB, ScenarioB2, ScenarioC, ScenarioD }
    \cup IneligibleRuns
    \cup { SubSeq(GoodRun, 1, n) \o t \o SubSeq(GoodRun, n + 1, Len(GoodRun)) :
             n \in 0..Len(GoodRun), t \in SeqsUpTo(ScriptTokens, MaxScript) }

InitScript ==
    /\ MainInit /\ script \in Scripts /\ stdin = script
    /\ VIdle /\ RunIdle /\ MenuIdle

\* input(): the next scripted line is taken off stdin.
ReadLine ==
    /\ stdin # << >>
    /\ stdin' = Tail(stdin)
    /\ UNCHANGED << script, vVars, rerunVars, menuVars >>

\* The line goes to whichever prompt is waiting.
NextScript ==
    \/ ReadLine /\ InitialConfirm(Head(stdin))
    \/ ReadLine /\ LoopConfirm(Head(stdin))
    \/ ReadLine /\ StepInput(Head(stdin))

SpecScript == InitScript /\ [][NextScript]_vars

(***************************************************************************)
(* One getter applied to one typed line.                                   *)
(***************************************************************************)
MaxLen == 3

ProbeBelow == 3

ProbeAbove == 125

Alphabet == { "1", "9", "sup2", "ar3", "-", " ", "a", "dotless_i" }

\* "exit" and "quit" in every letter case.
ExitCased ==
    { << a, b, c, d >> : a \in {"e", "E"}, b \in {"x", "X"},
                         c \in {"i", "I"}, d \in {"t", "T"} }
    \cup { << a, b, c, d >> : a \in {"q", "Q"}, b \in {"u", "U"},
                              c \in {"i", "I"}, d \in {"t", "T"} }

DecStrs == { DecStr(n) : n \in (0 - ProbeBelow)..ProbeAbove }

VInputs ==
    Inputs
    \cup { txt_NO, txt_120, txt_ar3, txt_quit_dotless, txt_4nn, txt_ONeil }
    \cup ExitCased
    \cup { << " " >> \o t \o << " " >> : t \in ExitCased }
    \cup DecStrs
    \cup SeqsUpTo(Alphabet, MaxLen)

InitValidate ==
    /\ MainInit /\ stdin = << >> /\ script = << >>
    /\ vfield \in Getters
    /\ vraw \in VInputs
    /\ vout = [tag |-> "Pending"]
    /\ RunIdle /\ MenuIdle

Validate ==
    /\ vout.tag = "Pending"
    /\ vout' = Getter(vfield, vraw)
    /\ UNCHANGED << mainVars, stdin, script, vfield, vraw, rerunVars, menuVars >>

SpecValidate == InitValidate /\ [][Validate]_vars

(***************************************************************************)
(* main() called a second time on the same script, after the first call    *)
(* ended.  results, the steps list and the loop are locals of main (lines  *)
(* 388-400): the second call creates them anew; the module keeps nothing   *)
(* that main writes.                                                       *)
(***************************************************************************)
\* The dict and the loop position live at module level and survive the call.
RestartKeepsState ==
    /\ run = 1
    /\ pc \in {"done", "crashed"}
    /\ run' = 2
    /\ prev' = [tag |-> "Ran", pc |-> pc, outcome |-> outcome, unread |-> stdin]
    /\ stdin' = script
    /\ pc' = "initial_confirm"
    /\ outcome' = NoOutcome
    /\ answers' = << >>
    /\ sinceAccept' = 0
    /\ prompted' = {}
    /\ events' = << >>
    /\ UNCHANGED << cursor, results, script, vVars, menuVars >>

Restart ==
    /\ run = 1
    /\ pc \in {"done", "crashed"}
    /\ run' = 2
    /\ prev' = [tag |-> "Ran", pc |-> pc, outcome |-> outcome, unread |-> stdin]
    /\ stdin' = script
    /\ pc' = "initial_confirm"
    /\ cursor' = 0
    /\ results' = << >>
    /\ outcome' = NoOutcome
    /\ answers' = << >>
    /\ sinceAccept' = 0
    /\ prompted' = {}
    /\ events' = << >>
    /\ UNCHANGED << script, vVars, menuVars >>

NextRerun ==
    \/ ReadLine /\ InitialConfirm(Head(stdin))
    \/ ReadLine /\ LoopConfirm(Head(stdin))
    \/ ReadLine /\ StepInput(Head(stdin))
    \/ Restart

SpecRerun == InitScript /\ [][NextRerun]_vars

(***************************************************************************)
(* A free run with an operator who does not go on for ever with lines that *)
(* are asked again: while a continuation question waits, a yes or a no is  *)
(* eventually typed, and while a field prompt waits, a line its getter     *)
(* accepts or a cancellation token is eventually typed.                    *)
(***************************************************************************)
\* _continue_or_raise returned or raised: the question was answered with a
\* yes (the run moves on to the prompt) or a no (the run is cancelled).
AnswerQuestion ==
    \/ pc = "initial_confirm" /\ pc' \in {"confirm", "done"}
    \/ pc = "confirm" /\ pc' \in {"input", "done"}

\* _require returned or CancelRegistration was raised: the line typed at the
\* field prompt was accepted by the getter or was a cancellation token.
DecisiveLine == pc = "input" /\ pc' \in {"confirm", "done"}

SpecFair ==
    Init /\ [][Next]_vars /\ WF_pc(AnswerQuestion) /\ WF_pc(DecisiveLine)

(***************************************************************************)
(* The calculator: menu() and its option handlers.  A call yields           *)
(* [kind |-> "return", value |-> v], [kind |-> "ask_again"] when its prompt *)
(* loop goes round, [kind |-> "exit"] for sys.exit(), and                   *)
(* [kind |-> "error", exc |-> e] when an exception leaves it.               *)
(***************************************************************************)
SysExit == [kind |-> "exit"]

Returned(v) == [kind |-> "return", value |-> v]

ValueError(m) == [kind |-> "error", exc |-> "ValueError", message |-> m]

\* _raw: the line is compared after lower() only, it is not stripped.
_raw(raw) ==
    IF lower(raw) \in { << "q" >>, << "q", "u", "i", "t" >>,
                        << "e", "x", "i", "t" >> }
    THEN SysExit
    ELSE Returned(raw)

\* One pass of _yn's loop.
_yn(raw) ==
    LET r == _raw(raw)
    IN  IF r.kind = "exit" THEN SysExit
        ELSE LET val == lower(strip(r.value))
             IN  IF val \in { << "y" >>, << "n" >> }
                 THEN Returned(val = << "y" >>)
                 ELSE AskAgain

\* float(text), on the lines of MenuInputs: blanks, a sign and decimal
\* digits, or a ValueError.  No line of MenuInputs has a point, an exponent,
\* an underscore, inf or nan.
float(s) ==
    LET t == strip(s)
        signed == t # << >> /\ Head(t) \in {"+", "-"}
        body == IF signed THEN Tail(t) ELSE t
    IN  IF body # << >> /\ AllDecimal(body)
        THEN [ok |-> TRUE,
              val |-> IF signed /\ Head(t) = "-" THEN 0 - DigitsValue(body)
                      ELSE DigitsValue(body)]
        ELSE [ok |-> FALSE, val |-> 0]

\* One pass of _num's loop; has_min says whether min_value is not None.
_num(raw, caster, has_min, min_value) ==
    LET r == _raw(raw)
    IN  IF r.kind = "exit" THEN SysExit
        ELSE LET c == IF caster = "int" THEN int(r.value) ELSE float(r.value)
             IN  IF ~c.ok THEN AskAgain
                 ELSE IF has_min /\ c.val < min_value THEN AskAgain
                 ELSE Returned(c.val)

MinPasswordLength == 8

\* generate_password: the password is random and only printed.
generate_password(length, use_upper, use_lower, use_digits, use_special) ==
    IF length < MinPasswordLength
    THEN ValueError("Password length should be at least 8 characters.")
    ELSE IF ~(use_lower \/ use_upper \/ use_digits \/ use_special)
    THEN ValueError("At least one character set must be selected.")
    ELSE Returned("password")

\* calculate_percentage: the number is only printed.
calculate_percentage(part, whole, decimals) ==
    IF whole = 0 THEN Returned("0") ELSE Returned("percentage")

\* calculate_leg: on whole-number sides and angle the radicand is not
\* negative and nothing overflows; the number is only printed.
calculate_leg(a, b, angle_degrees) == Returned("side")

volume_cylinder(radius, height) ==
    IF radius < 0 \/ height < 0
    THEN ValueError("Radius and height must be non-negative.")
    ELSE Returned("volume")

exit_program == SysExit

\* Lines an operator may type at the calculator's prompts.
MenuInputs ==
    { << "a" >>, << "B" >>, << "c" >>, << "d" >>, << "e" >>, << "F" >>,
      << "f" >>, << "x" >>, << "y" >>, << "n" >>, << " ", "N" >>,
      << "q" >>, << " ", "q" >>, txt_QUIT, txt_exit, txt_empty,
      << "0" >>, << "1" >>, << "-", "1" >>, << "8" >>, << "7" >>, txt_sup2 }

\* A sub-prompt that is not the handler's last: r is what _num or _yn made of
\* the line.
SubPrompt(r, next) ==
    CASE r.kind = "exit" -> mpc' = "exited" /\ margs' = margs
      [] r.kind = "ask_again" -> mpc' = mpc /\ margs' = margs
      [] r.kind = "return" -> mpc' = next /\ margs' = Append(margs, r.value)

\* The handler's call of its calculator function, then back to the menu; an
\* exception is caught neither by the handler nor by menu().
Call(result, args) ==
    IF result.kind = "return" THEN mpc' = "choice" /\ margs' = << >>
    ELSE mpc' = "crashed" /\ margs' = args

MenuInit == mpc = "choice" /\ margs = << >> /\ mline = NoLine

InitMenu ==
    MainInit /\ stdin = << >> /\ script = << >> /\ VIdle /\ RunIdle /\ MenuInit

\* menu(): the line typed at "Choice: ".  Option c has no sub-prompt, its
\* handler prints and returns.
menu(raw) ==
    /\ mpc = "choice"
    /\ LET choice == lower(raw)
       IN  mpc' = CASE choice = << "a" >> -> "a_length"
                    [] choice = << "b" >> -> "b_part"
                    [] choice = << "c" >> -> "choice"
                    [] choice = << "d" >> -> "d_a"
                    [] choice = << "e" >> -> "e_radius"
                    [] choice = << "f" >> ->
                         IF exit_program.kind = "exit" THEN "exited"
                         ELSE "choice"
                    [] OTHER -> "choice"
    /\ margs' = << >>
    /\ mline' = [at |-> mpc, text |-> raw]

\* _handle_password: the length, the four y/n questions (all four again while
\* none is chosen), then the generator.
_handle_password(raw) ==
    /\ mpc \in {"a_length", "a_upper", "a_lower", "a_digits", "a_special"}
    /\ mline' = [at |-> mpc, text |-> raw]
    /\ CASE mpc = "a_length" -> SubPrompt(_num(raw, "int", TRUE, 8), "a_upper")
         [] mpc = "a_upper" -> SubPrompt(_yn(raw), "a_lower")
         [] mpc = "a_lower" -> SubPrompt(_yn(raw), "a_digits")
         [] mpc = "a_digits" -> SubPrompt(_yn(raw), "a_special")
         [] mpc = "a_special" ->
              LET r == _yn(raw)
              IN  IF r.kind # "return" THEN SubPrompt(r, mpc)
                  ELSE LET args == Append(margs, r.value)
                       IN  IF ~(args[2] \/ args[3] \/ args[4] \/ args[5])
                           THEN mpc' = "a_upper" /\ margs' = << args[1] >>
                           ELSE Call(generate_password(args[1], args[2],
                                                       args[3], args[4],
                                                       args[5]), args)

\* _handle_percentage: numerator, denominator, decimals.
_handle_percentage(raw) ==
    /\ mpc \in {"b_part", "b_whole", "b_decimals"}
    /\ mline' = [at |-> mpc, text |-> raw]
    /\ CASE mpc = "b_part" -> SubPrompt(_num(raw, "float", FALSE, 0), "b_whole")
         [] mpc = "b_whole" ->
              SubPrompt(_num(raw, "float", FALSE, 0), "b_decimals")
         [] mpc = "b_decimals" ->
              LET r == _num(raw, "int", FALSE, 0)
              IN  IF r.kind # "return" THEN SubPrompt(r, mpc)
                  ELSE LET args == Append(margs, r.value)
                       IN  Call(calculate_percentage(args[1], args[2], args[3]),
                                args)

\* _handle_cosine: two sides and the angle between them.
_handle_cosine(raw) ==
    /\ mpc \in {"d_a", "d_b", "d_angle"}
    /\ mline' = [at |-> mpc, text |-> raw]
    /\ CASE mpc = "d_a" -> SubPrompt(_num(raw, "float", FALSE, 0), "d_b")
         [] mpc = "d_b" -> SubPrompt(_num(raw, "float", FALSE, 0), "d_angle")
         [] mpc = "d_angle" ->
              LET r == _num(raw, "float", FALSE, 0)
              IN  IF r.kind # "return" THEN SubPrompt(r, mpc)
                  ELSE LET args == Append(margs, r.value)
                       IN  Call(calculate_leg(args[1], args[2], args[3]), args)

\* _handle_cylinder: radius and height, neither with a minimum.
_handle_cylinder(raw) ==
    /\ mpc \in {"e_radius", "e_height"}
    /\ mline' = [at |-> mpc, text |-> raw]
    /\ CASE mpc = "e_radius" ->
              SubPrompt(_num(raw, "float", FALSE, 0), "e_height")
         [] mpc = "e_height" ->
              LET r == _num(raw, "float", FALSE, 0)
              IN  IF r.kind # "return" THEN SubPrompt(r, mpc)
                  ELSE LET args == Append(margs, r.value)
                       IN  Call(volume_cylinder(args[1], args[2]), args)

NextMenu ==
    \/ \E raw \in MenuInputs :
         menu(raw) /\ UNCHANGED << mainVars, stdin, script, vVars, rerunVars >>
    \/ \E raw \in MenuInputs :
         _handle_password(raw)
         /\ UNCHANGED << mainVars, stdin, script, vVars, rerunVars >>
    \/ \E raw \in MenuInputs :
         _handle_percentage(raw)
         /\ UNCHANGED << mainVars, stdin, script, vVars, rerunVars >>
    \/ \E raw \in MenuInputs :
         _handle_cosine(raw)
         /\ UNCHANGED << mainVars, stdin, script, vVars, rerunVars >>
    \/ \E raw \in MenuInputs :
         _handle_cylinder(raw)
         /\ UNCHANGED << mainVars, stdin, script, vVars, rerunVars >>

SpecMenu == InitMenu /\ [][NextMenu]_vars

(***************************************************************************)
(* Properties.                                                             *)
(***************************************************************************)
Last(s) == s[Len(s)]

Ended == pc \in {"done", "crashed"}

\* Every scripted line was read, or the run ended before reading them all.
ScriptOver == stdin = << >> \/ Ended

Applied == vout.tag \notin {"Idle", "Pending"}

StepOrder == << "first", "last", "age", "citizen", "state", "zip" >>

\* C1: the success summary (Completed) is emitted only after each of the six
\* steps first, last, age, citizen, state, zip, in that order and none
\* skipped, had its getter return an accepted value and its guard, if it has
\* one, return without raising.
C1_CompletedOnlyAfterEveryStep ==
    outcome.tag = "Completed" =>
        /\ Len(events) = Len(StepOrder)
        /\ \A k \in 1..Len(StepOrder) :
              /\ events[k].key = StepOrder[k]
              /\ events[k].tag = "Accepted"
              /\ events[k].guard # "Abort"
        /\ DOMAIN outcome.result = Range(StepOrder)

C1_Witness ==
    /\ outcome.tag = "Completed"
    /\ Len(events) = 6
    /\ events[3].guard = "Pass"
    /\ events[4].guard = "Pass"

\* C2: whatever line is typed at a field prompt, the getter's pass over it
\* ends Accepted, Retry or CancelRequested and never raises, and it ends
\* CancelRequested only for the tokens exit and quit (any letter case,
\* blanks around them trimmed).
C2_ValidatorNeverRaises ==
    Applied =>
        /\ vout.tag \in {"Accepted", "Retry", "CancelRequested"}
        /\ vout.tag = "CancelRequested" => strip(vraw) \in ExitCased

\* C3: a run that has ended has produced an outcome that is Completed or
\* Cancelled; it never ends any other way.
C3_EndsWithAnOutcome ==
    Ended => outcome.tag \in {"Completed", "Cancelled"}

\* C4 as stated: one continuation question is answered between the start of
\* the run and the first field prompt and one between each stored value and
\* the next field prompt, six in a completed run.
C4_OneQuestionPerStep ==
    /\ pc = "input" => sinceAccept = 1
    /\ outcome.tag = "Completed" => Len(answers) = 6

\* C4 as amended: two continuation questions are answered between the start
\* of the run and the first field prompt (the initial one and the first
\* step's own), one between each stored value and the next field prompt, so
\* a completed run has answered seven.
C4_QuestionsPerStep ==
    /\ pc = "input" =>
          /\ sinceAccept = IF cursor = 0 THEN 2 ELSE 1
          /\ Len(answers) = cursor + 2
    /\ outcome.tag = "Completed" => Len(answers) = 7

C4_Witness ==
    /\ outcome.tag = "Completed"
    /\ Len(answers) = 7

\* C5: when the first continuation question is answered no, the run ends
\* Cancelled with the initial goodbye message, no field prompt was shown
\* and the result record is empty.
C5_InitialDecline ==
    (answers # << >> /\ answers[1] = FALSE) =>
        /\ pc = "done"
        /\ outcome.tag = "Cancelled"
        /\ outcome.reason = InitialMsg
        /\ prompted = {}
        /\ events = << >>
        /\ results = << >>

C5_Witness == answers = << FALSE >> /\ pc = "done"

\* C6 as stated: the script yes, exit (one question answered yes, then exit)
\* ends the run Cancelled with the generic message.
C6_ScenarioB ==
    (script = ScenarioB /\ ScriptOver) =>
        /\ outcome.tag = "Cancelled"
        /\ outcome.reason = DefaultMsg

\* C6 as amended: the script yes, yes, exit (the initial question and the
\* first step's question answered yes, then exit at the first-name prompt)
\* ends the run Cancelled with the generic message; and an exit or quit
\* token typed at the field prompt of any step ends the run Cancelled with
\* that same message.
C6_ExitAtAnyStep ==
    /\ (script = ScenarioB2 /\ ScriptOver) =>
          /\ outcome.tag = "Cancelled"
          /\ outcome.reason = DefaultMsg
          /\ Len(events) = 1
          /\ events[1].key = "first"
    /\ (events # << >> /\ Last(events).raw \in ExitCased) =>
          /\ pc = "done"
          /\ outcome.tag = "Cancelled"
          /\ outcome.reason = DefaultMsg

C6_Witness ==
    /\ script = ScenarioB2
    /\ stdin = << >>
    /\ outcome.tag = "Cancelled"

\* C7: when a step's getter accepted a value and the step's guard raised,
\* the result record has no entry for that step's field when the run ends,
\* and the outcome is Cancelled with the guard's message, not the generic
\* one.
C7_GuardPrecedence ==
    (events # << >> /\ Last(events).tag = "Accepted"
                    /\ Last(events).guard = "Abort") =>
        /\ pc = "done"
        /\ Last(events).key \notin DOMAIN results
        /\ outcome.tag = "Cancelled"
        /\ outcome.reason = EligibilityMsg
        /\ outcome.reason # DefaultMsg

C7_Witness ==
    /\ events # << >>
    /\ Last(events).key = "age"
    /\ Last(events).tag = "Accepted"
    /\ Last(events).guard = "Abort"
    /\ pc = "done"

ExpectedA ==
    [first |-> txt_Ann, last |-> txt_Lee, age |-> 25, citizen |-> TRUE,
     state |-> txt_MD, zip |-> txt_21201]

\* C8 as stated: the script yes, Ann, Lee, 25, yes, MD, 21201 produces
\* Completed with first Ann, last Lee, age 25, citizen true, state MD,
\* zip 21201.
C8_ScenarioA ==
    (script = ScenarioA /\ ScriptOver) =>
        /\ outcome.tag = "Completed"
        /\ outcome.result = ExpectedA

\* C8 as amended: the script with the initial question and each step's own
\* question answered yes (yes, yes, Ann, yes, Lee, yes, 25, yes, yes, yes,
\* MD, yes, 21201) produces Completed with that record; and whenever every
\* question was answered yes and each of the six steps got a value that its
\* getter accepted and its guard let pass, the outcome is Completed and the
\* record maps each field to the typed value accepted for it.
C8_AllValidCompletes ==
    /\ (script = GoodRun /\ ScriptOver) =>
          /\ outcome.tag = "Completed"
          /\ outcome.result = ExpectedA
    /\ (/\ Len(events) = Len(StepOrder)
        /\ \A k \in 1..Len(events) :
              events[k].tag = "Accepted" /\ events[k].guard # "Abort"
        /\ \A k \in 1..Len(answers) : answers[k]) =>
          /\ outcome.tag = "Completed"
          /\ DOMAIN outcome.result = Range(StepOrder)
          /\ \A k \in 1..Len(StepOrder) :
                outcome.result[StepOrder[k]] = events[k].value

C8_Witness ==
    /\ script = GoodRun
    /\ stdin = << >>
    /\ outcome.tag = "Completed"

\* C9: for a line that is exit or quit in any letter case, each of the six
\* getters returns None (CancelRequested).
C9_ExitTokenCancels ==
    (Applied /\ vraw \in ExitCased) => vout.tag = "CancelRequested"

C9_Witness ==
    /\ vfield = "stateOfResidence"
    /\ vraw = << "E", "x", "I", "t" >>
    /\ vout.tag = "CancelRequested"

\* C10: the age getter accepts the decimal string of every n from 0 to 120
\* with the value n, and answers Retry to the decimal string of every
\* n < 0 and n > 120 and to every text that is not a number (the exit and
\* quit tokens, which cancel at every prompt, aside).
C10_AgeValidation ==
    (Applied /\ vfield = "isValidAge") =>
        /\ \A n \in (0 - ProbeBelow)..ProbeAbove :
              vraw = DecStr(n) =>
                 IF 0 <= n /\ n <= 120
                 THEN vout.tag = "Accepted" /\ vout.value = n
                 ELSE vout.tag = "Retry"
        /\ (~int(vraw).ok /\ strip(vraw) \notin ExitCased) =>
              vout.tag = "Retry"

C12_EventuallyOutcome == <>(outcome.tag \in {"Completed", "Cancelled"})

\* The number of scripted lines read so far.
Consumed == Len(script) - Len(stdin)

\* C13: a line that the current step's getter answers with Retry leaves the
\* step index, the result record and the outcome as they were and leaves the
\* run at the same field's prompt; so no run of such lines cancels, advances
\* or ends the prompt loop.
C13_RetryKeepsStep ==
    [][(/\ pc = "input"
        /\ stdin # << >>
        /\ Getter(steps[cursor + 1].getter, Head(stdin)).tag = "Retry")
       => (/\ pc' = "input"
           /\ cursor' = cursor
           /\ results' = results
           /\ outcome' = outcome
           /\ prompted' = prompted
           /\ events' = events)]_vars

\* Two lines in a row asked again at the first-name prompt.
C13_Witness ==
    /\ pc = "input"
    /\ cursor = 0
    /\ Consumed = 4
    /\ script[3] = txt_16
    /\ script[4] = txt_sup2
    /\ firstName(script[3]) = Retry
    /\ firstName(script[4]) = Retry
    /\ results = << >>
    /\ outcome = NoOutcome

\* Lines that state an age from 0 to 17, and lines that answer no.
UnderageLines == { DecStr(n) : n \in 0..17 }

NoLines == { txt_no, txt_NO, txt_n, txt_No }

\* C14: an age from 0 to 17 at the age prompt and a no at the citizenship
\* prompt are accepted by the getter (not asked again), the step's guard then
\* raises, and the run ends Cancelled with the eligibility message, nothing
\* stored, and no field prompted afterwards.
C14_EligibilityAbort ==
    [][/\ (/\ pc = "input"
            /\ stdin # << >>
            /\ \/ steps[cursor + 1].key = "age" /\ Head(stdin) \in UnderageLines
               \/ steps[cursor + 1].key = "citizen" /\ Head(stdin) \in NoLines)
           => (/\ pc' = "done"
               /\ outcome' = Cancelled(EligibilityMsg)
               /\ Len(events') = Len(events) + 1
               /\ Last(events').key = steps[cursor + 1].key
               /\ Last(events').tag = "Accepted"
               /\ Last(events').guard = "Abort"
               /\ results' = results
               /\ cursor' = cursor
               /\ prompted' = prompted)
       /\ pc = "done" => (pc' = "done" /\ prompted' = prompted)]_vars

\* A run cancelled by the age guard on the accepted age 17, lines left unread.
C14_Witness ==
    /\ pc = "done"
    /\ outcome = Cancelled(EligibilityMsg)
    /\ cursor = 2
    /\ events # << >>
    /\ Last(events).key = "age"
    /\ Last(events).tag = "Accepted"
    /\ Last(events).value = 17
    /\ Last(events).guard = "Abort"
    /\ DOMAIN results = {"first", "last"}
    /\ stdin # << >>

\* C15: in every reachable state the fields of the result record are exactly
\* the first k fields of the step order, k being the number of steps
\* completed; and a step of the run removes no entry and changes no stored
\* value, so the record only grows.
C15_ResultsGrowInOrder ==
    /\ [](/\ cursor \in 0..Len(StepOrder)
          /\ DOMAIN results = { StepOrder[j] : j \in 1..cursor })
    /\ [][/\ cursor' \in {cursor, cursor + 1}
          /\ \A k \in DOMAIN results :
                k \in DOMAIN results' /\ results'[k] = results[k]]_vars

\* Three steps completed, the fourth not yet.
C15_Witness ==
    /\ cursor = 3
    /\ pc = "input"
    /\ DOMAIN results = {"first", "last", "age"}
    /\ results["first"] = txt_Ann
    /\ results["age"] = 25

\* q, quit, exit as _raw's prompt announces them, in any letter case.
QuitLines ==
    { t \in MenuInputs :
        lower(t) \in { << "q" >>, << "q", "u", "i", "t" >>, txt_exit } }

\* C16: the calculator's menu loop ends only when the operator chose option
\* f at the menu or typed q, quit or exit at a sub-prompt; every other line,
\* a negative radius or height of option e included, leaves the program at a
\* prompt or back at the menu.
C16_MenuEndsOnlyOnRequest ==
    mpc \notin {"off", "choice",
                "a_length", "a_upper", "a_lower", "a_digits", "a_special",
                "b_part", "b_whole", "b_decimals",
                "d_a", "d_b", "d_angle", "e_radius", "e_height"}
    => \/ mline.at = "choice" /\ mline.text \in { << "f" >>, << "F" >> }
       \/ mline.at \notin {"None", "choice"} /\ mline.text \in QuitLines


\* C17: in every Completed outcome the record's age is between 18 and 120, its
\* citizen entry is true (so the summary's fixed "U.S. Citizen: Yes" agrees
\* with it), and its state is one of the codes of the reference table.
C17_CompletedIsEligible ==
    outcome.tag = "Completed" =>
        /\ outcome.result["age"] \in 18..120
        /\ outcome.result["citizen"] = TRUE
        /\ outcome.result["state"] \in stateOfResidenceHM

\* A completed registration at the lowest age, with a state typed in lower
\* case between blanks.
C17_Witness ==
    /\ outcome.tag = "Completed"
    /\ outcome.result["age"] = 18
    /\ outcome.result["citizen"] = TRUE
    /\ outcome.result["state"] = txt_MD
    /\ \E k \in 1..Len(events) :
          events[k].key = "state" /\ events[k].raw = txt_md_padded

\* The answers y, yes, n, no in any letter case.
YesCased ==
    { << a >> : a \in {"y", "Y"} }
    \cup { << a, b, c >> : a \in {"y", "Y"}, b \in {"e", "E"}, c \in {"s", "S"} }

NoCased ==
    { << a >> : a \in {"n", "N"} }
    \cup { << a, b >> : a \in {"n", "N"}, b \in {"o", "O"} }

\* C18: at a continuation question (the initial one or a step's own) a line
\* that is, blanks at its ends aside, none of y, yes, n, no in any letter case
\* (exit and quit among such lines) leaves the run at the same question
\* with the step index, the record and the outcome unchanged; and the run ends
\* at a question only on n or no, and then Cancelled.
C18_QuestionIgnoresExit ==
    [][(pc \in {"initial_confirm", "confirm"} /\ stdin # << >>)
       => /\ strip(Head(stdin)) \notin YesCased \cup NoCased
               => (/\ pc' = pc
                   /\ cursor' = cursor
                   /\ results' = results
                   /\ outcome' = outcome
                   /\ answers' = answers
                   /\ prompted' = prompted)
          /\ pc' \notin {"initial_confirm", "confirm", "input"}
               => (/\ strip(Head(stdin)) \in NoCased
                   /\ pc' = "done"
                   /\ outcome'.tag = "Cancelled")]_vars

\* Scenario B read to its end: the exit was typed at the first step's own
\* question and the run still waits there.
C18_Witness ==
    /\ script = ScenarioB
    /\ Last(script) = txt_exit
    /\ stdin = << >>
    /\ pc = "confirm"
    /\ cursor = 0
    /\ results = << >>
    /\ outcome = NoOutcome
    /\ answers = << TRUE >>

====
